---- MODULE Spec2Model ----
(***************************************************************************)
(* A model of numcodecs/zarr3.py: the adapter classes that expose numcodecs *)
(* codecs to zarr v3.  Python values are tagged tuples, a dict is a         *)
(* function from key strings to values, a codec instance is a record        *)
(* [cls, codec_config] living at an index of the sequence `codecs` (the     *)
(* index is the object's identity).                                          *)
(***************************************************************************)
EXTENDS Integers, Sequences, FiniteSets, TLC

VARIABLES
    codecs,   \* the codec instances constructed so far, by identity
    origin,   \* history: how each instance of `codecs` came to be
    last,     \* the last call: [op, self, arg, ret, err]
    cache,    \* per instance, its __dict__["_codec"]: 0, or the handle cached
    lookups,  \* history: per instance, the calls of numcodecs.get_codec so far
    calls,    \* the encode and decode calls in flight, by the order they began
    started,  \* history: the number of encode and decode calls begun
    finished  \* history: the encode and decode calls that ended

\* the state of encode and decode
threads == <<cache, lookups, calls, started, finished>>

vars == <<codecs, origin, last, cache, lookups, calls, started, finished>>

-----------------------------------------------------------------------------
(* Bounds of the model *)

MaxCodecs == 2      \* instances alive at once
MaxDim    == 10     \* largest extent of one array dimension
MaxLen    == 3      \* largest input_byte_length
MaxCalls  == 2      \* encode and decode calls begun in one run

-----------------------------------------------------------------------------
(* Python values *)

PyNone   == <<"none", 0>>
PyStr(s) == <<"str", s>>
PyInt(n) == <<"int", n>>

\* bool(v) for the values of the model
Truthy(v) == v \notin {PyNone, PyStr(""), PyInt(0)}

EmptyDict == [k \in {} |-> PyNone]

\* d.get(k)
DictGet(d, k) == IF k \in DOMAIN d THEN d[k] ELSE PyNone

\* {**a, **b}
DictMerge(a, b) ==
    [k \in (DOMAIN a) \cup (DOMAIN b) |-> IF k \in DOMAIN b THEN b[k] ELSE a[k]]

\* a copy of d after d.pop(k)
DictPop(d, k) == [x \in (DOMAIN d) \ {k} |-> d[x]]

\* s.startswith(p) and s[len(p):]
StartsWith(s, p) == Len(s) >= Len(p) /\ SubSeq(s, 1, Len(p)) = p
StripPrefix(s, p) == SubSeq(s, Len(p) + 1, Len(s))

Ok(v)    == [err |-> "", val |-> v]
Raise(e) == [err |-> e, val |-> PyNone]

-----------------------------------------------------------------------------
(* The module's constants and classes *)

CODEC_PREFIX == "https://zarr.dev/numcodecs/"

NumcodecsCodec           == "NumcodecsCodec"
NumcodecsBytesBytesCodec == "NumcodecsBytesBytesCodec"
NumcodecsArrayArrayCodec == "NumcodecsArrayArrayCodec"
ShuffleCodec             == "ShuffleCodec"
FixedScaleOffsetCodec    == "FixedScaleOffsetCodec"
QuantizeCodec            == "QuantizeCodec"
AsTypeCodec              == "AsTypeCodec"
PackbitsCodec            == "PackbitsCodec"

\* the classes built by make_bytes_bytes_codec(codec_id, cls_name)
make_bytes_bytes_codec ==
    ("BloscCodec" :> "blosc") @@ ("Lz4Codec" :> "lz4") @@ ("ZstdCodec" :> "zstd") @@
    ("ZlibCodec" :> "zlib") @@ ("GzipCodec" :> "gzip") @@ ("Bz2Codec" :> "bz2") @@
    ("LzmaCodec" :> "lzma")

\* the classes built by make_array_array_codec(codec_id, cls_name)
make_array_array_codec ==
    ("DeltaCodec" :> "delta") @@ ("BitroundCodec" :> "bitround")

\* the classes built by make_checksum_codec(codec_id, cls_name)
make_checksum_codec ==
    ("Crc32Codec" :> "crc32") @@ ("Adler32Codec" :> "adler32") @@
    ("Fletcher32Codec" :> "fletcher32") @@ ("JenkinsLookup3" :> "jenkinks_lookup3")

\* the hand-written classes and the codec_id their __init__ passes up
HandWritten ==
    (ShuffleCodec :> "shuffle") @@ (FixedScaleOffsetCodec :> "fixedscaleoffset") @@
    (QuantizeCodec :> "quantize") @@ (AsTypeCodec :> "astype") @@
    (PackbitsCodec :> "packbits")

\* every class whose __init__(self, codec_config={}) fixes the codec id
FixedId ==
    make_bytes_bytes_codec @@ make_array_array_codec @@ make_checksum_codec @@ HandWritten

\* the two classes whose __init__ takes a required keyword codec_id
KeywordId == {NumcodecsBytesBytesCodec, NumcodecsArrayArrayCodec}

Classes == {NumcodecsCodec} \cup KeywordId \cup DOMAIN FixedId

-----------------------------------------------------------------------------
(* Construction, parsing and serialisation *)

\* parse_codec_configuration taking the whole name for the id
parse_codec_configuration_whole_name(data, expected_name_prefix) ==
    IF ~StartsWith(data.name, expected_name_prefix)
    THEN Raise("ValueError")
    ELSE Ok(DictMerge("id" :> PyStr(data.name), data.configuration))

\* parse_codec_configuration(data, expected_name_prefix); data is a
\* descriptor [name, configuration] that parse_named_configuration accepts
parse_codec_configuration(data, expected_name_prefix) ==
    LET parsed_name == data.name
        parsed_configuration == data.configuration
    IN  IF ~StartsWith(parsed_name, expected_name_prefix)
        THEN Raise("ValueError")
        ELSE LET id == StripPrefix(parsed_name, expected_name_prefix)
             IN  Ok(DictMerge("id" :> PyStr(id), parsed_configuration))

\* NumcodecsCodec.__init__ keeping the mapping it was given as it is
NumcodecsCodec_init_no_merge(codec_id, codec_config) ==
    IF "id" \notin DOMAIN codec_config /\ ~Truthy(codec_id)
    THEN Raise("ValueError")
    ELSE IF "id" \in DOMAIN codec_config /\ Truthy(codec_id)
            /\ codec_config["id"] # codec_id
         THEN Raise("ValueError")
         ELSE Ok(codec_config)

\* NumcodecsCodec.__init__ without its check of the two ids
NumcodecsCodec_init_unchecked(codec_id, codec_config) ==
    IF "id" \notin DOMAIN codec_config
    THEN IF ~Truthy(codec_id)
         THEN Raise("ValueError")
         ELSE Ok(DictMerge("id" :> codec_id, codec_config))
    ELSE Ok(codec_config)

\* NumcodecsCodec.__init__(self, *, codec_id=None, codec_config): the value
\* is the codec_config the instance holds
NumcodecsCodec_init(codec_id, codec_config) ==
    IF "id" \notin DOMAIN codec_config
    THEN IF ~Truthy(codec_id)
         THEN Raise("ValueError")
         ELSE Ok(DictMerge("id" :> codec_id, codec_config))
    ELSE IF Truthy(codec_id) /\ codec_config["id"] # codec_id
         THEN Raise("ValueError")
         ELSE Ok(codec_config)

\* cls(**kwargs): the keyword arguments passed are the keys of kwargs
New(cls, kwargs) ==
    LET passed(k) == k \in DOMAIN kwargs
    IN  IF cls = NumcodecsCodec
        THEN IF ~passed("codec_config")
             THEN Raise("TypeError")
             ELSE NumcodecsCodec_init(DictGet(kwargs, "codec_id"), kwargs["codec_config"])
        ELSE IF cls \in KeywordId
        THEN IF ~passed("codec_id") \/ ~passed("codec_config")
             THEN Raise("TypeError")
             ELSE NumcodecsCodec_init(kwargs["codec_id"], kwargs["codec_config"])
        ELSE IF passed("codec_id")
             THEN Raise("TypeError")
             ELSE NumcodecsCodec_init(
                      PyStr(FixedId[cls]),
                      IF passed("codec_config") THEN kwargs["codec_config"] ELSE EmptyDict)

\* NumcodecsCodec.from_dict(cls, data)
from_dict(cls, data) ==
    LET codec_config == parse_codec_configuration(data, CODEC_PREFIX)
    IN  IF codec_config.err # ""
        THEN codec_config
        ELSE New(cls, "codec_config" :> codec_config.val)

\* to_dict emitting the configuration with its id left in
to_dict_keeps_id(self) ==
    [name |-> CODEC_PREFIX \o self.codec_config["id"][2],
     configuration |-> self.codec_config]

\* NumcodecsCodec.to_dict(self)
to_dict(self) ==
    LET codec_config == self.codec_config
        codec_id == codec_config["id"]
    IN  [name |-> CODEC_PREFIX \o codec_id[2],
         configuration |-> DictPop(codec_config, "id")]

-----------------------------------------------------------------------------
(* Array specs and numpy dtypes *)

\* np.dtype(name) for the names the model uses: the dtype's canonical name
DTypeNames ==
    ("bool" :> "bool") @@ ("?" :> "bool") @@
    ("uint8" :> "uint8") @@ ("u1" :> "uint8") @@ ("|u1" :> "uint8") @@
    ("int32" :> "int32") @@ ("i4" :> "int32") @@ ("<i4" :> "int32") @@
    ("float64" :> "float64") @@ ("f8" :> "float64") @@ ("<f8" :> "float64")

\* np.dtype(v): a dtype, named by its canonical name (which is str(dtype))
np_dtype(v) ==
    IF v = PyNone THEN Ok("float64")
    ELSE IF v[1] = "str" /\ v[2] \in DOMAIN DTypeNames THEN Ok(DTypeNames[v[2]])
    ELSE Raise("TypeError")

\* dtype.itemsize
itemsize == ("bool" :> 1) @@ ("uint8" :> 1) @@ ("int32" :> 4) @@ ("float64" :> 8)

\* ArraySpec(shape, dtype, fill_value)
ArraySpec(shape, dtype, fill_value) ==
    [shape |-> shape, dtype |-> dtype, fill_value |-> fill_value]

\* zarr.common.product: reduce(operator.mul, tup, 1)
RECURSIVE product(_)
product(tup) == IF tup = <<>> THEN 1 ELSE Head(tup) * product(Tail(tup))

\* n // d in the place of math.ceil(n / d)
math_floor(n, d) == n \div d

\* math.ceil(n / d) for n >= 0, d > 0
math_ceil(n, d) == IF (n \div d) * d = n THEN n \div d ELSE (n \div d) + 1

-----------------------------------------------------------------------------
(* The codec protocol *)

\* compute_encoded_size without the checksum classes' override
compute_encoded_size_base(self, input_byte_length, chunk_spec) == input_byte_length

\* compute_encoded_size: NumcodecsCodec's, overridden by make_checksum_codec
compute_encoded_size(self, input_byte_length, chunk_spec) ==
    IF self.cls \in DOMAIN make_checksum_codec
    THEN input_byte_length + 4
    ELSE input_byte_length

\* self.__class__({key: value}): the rest of the configuration is dropped
Replace_only_key(self, key, value) ==
    New(self.cls, "codec_config" :> (key :> value))

\* self.__class__({**self.codec_config, key: value}): the constructor's result
Replace(self, key, value) ==
    New(self.cls, "codec_config" :> DictMerge(self.codec_config, key :> value))

Same == [same |-> TRUE, made |-> Ok(PyNone)]
Made(r) == [same |-> FALSE, made |-> r]

\* ShuffleCodec.evolve comparing the field it never writes
ShuffleCodec_evolve_other_key(self, array_spec) ==
    IF PyInt(itemsize[array_spec.dtype]) # DictGet(self.codec_config, "element_size")
    THEN Made(Replace(self, "elementsize", PyInt(itemsize[array_spec.dtype])))
    ELSE Same

ShuffleCodec_evolve(self, array_spec) ==
    IF PyInt(itemsize[array_spec.dtype]) # DictGet(self.codec_config, "elementsize")
    THEN Made(Replace(self, "elementsize", PyInt(itemsize[array_spec.dtype])))
    ELSE Same

FixedScaleOffsetCodec_evolve(self, array_spec) ==
    IF PyStr(array_spec.dtype) # DictGet(self.codec_config, "dtype")
    THEN Made(Replace(self, "dtype", PyStr(array_spec.dtype)))
    ELSE Same

QuantizeCodec_evolve(self, array_spec) ==
    IF PyStr(array_spec.dtype) # DictGet(self.codec_config, "dtype")
    THEN Made(Replace(self, "dtype", PyStr(array_spec.dtype)))
    ELSE Same

AsTypeCodec_evolve(self, array_spec) ==
    LET decode_dtype == DictGet(self.codec_config, "decode_dtype")
    IN  IF PyStr(array_spec.dtype) # decode_dtype
        THEN Made(Replace(self, "decode_dtype", PyStr(array_spec.dtype)))
        ELSE Same

\* self.evolve(array_spec); a class that defines none inherits zarr's
\* Codec.evolve, which returns self
evolve(self, array_spec) ==
    CASE self.cls = ShuffleCodec          -> ShuffleCodec_evolve(self, array_spec)
      [] self.cls = FixedScaleOffsetCodec -> FixedScaleOffsetCodec_evolve(self, array_spec)
      [] self.cls = QuantizeCodec         -> QuantizeCodec_evolve(self, array_spec)
      [] self.cls = AsTypeCodec           -> AsTypeCodec_evolve(self, array_spec)
      [] OTHER                            -> Same

\* ArraySpec(chunk_spec.shape, np.dtype(v), chunk_spec.fill_value)
WithDtype(chunk_spec, v) ==
    LET d == np_dtype(v)
    IN  IF d.err # "" THEN d
        ELSE Ok(ArraySpec(chunk_spec.shape, d.val, chunk_spec.fill_value))

FixedScaleOffsetCodec_resolve_metadata(self, chunk_spec) ==
    LET astype == DictGet(self.codec_config, "astype")
    IN  IF Truthy(astype) THEN WithDtype(chunk_spec, astype) ELSE Ok(chunk_spec)

\* AsTypeCodec.resolve_metadata reading the decode side
AsTypeCodec_resolve_metadata_decode(self, chunk_spec) ==
    IF "decode_dtype" \notin DOMAIN self.codec_config
    THEN Raise("KeyError")
    ELSE WithDtype(chunk_spec, self.codec_config["decode_dtype"])

AsTypeCodec_resolve_metadata(self, chunk_spec) ==
    IF "encode_dtype" \notin DOMAIN self.codec_config
    THEN Raise("KeyError")
    ELSE WithDtype(chunk_spec, self.codec_config["encode_dtype"])

\* PackbitsCodec.resolve_metadata without the header byte
PackbitsCodec_resolve_metadata_no_header(self, chunk_spec) ==
    Ok(ArraySpec(<<math_ceil(product(chunk_spec.shape), 8)>>,
                 "uint8",
                 chunk_spec.fill_value))

PackbitsCodec_resolve_metadata(self, chunk_spec) ==
    Ok(ArraySpec(<<1 + math_ceil(product(chunk_spec.shape), 8)>>,
                 "uint8",
                 chunk_spec.fill_value))

\* self.resolve_metadata(chunk_spec); a class that defines none inherits
\* zarr's Codec.resolve_metadata, which returns chunk_spec
resolve_metadata(self, chunk_spec) ==
    CASE self.cls = FixedScaleOffsetCodec ->
             FixedScaleOffsetCodec_resolve_metadata(self, chunk_spec)
      [] self.cls = AsTypeCodec   -> AsTypeCodec_resolve_metadata(self, chunk_spec)
      [] self.cls = PackbitsCodec -> PackbitsCodec_resolve_metadata(self, chunk_spec)
      [] OTHER                    -> Ok(chunk_spec)

\* PackbitsCodec.validate testing for the dtype it produces
PackbitsCodec_validate_uint8(self, array_metadata) ==
    IF array_metadata.dtype # "uint8" THEN Raise("ValueError") ELSE Ok(PyNone)

PackbitsCodec_validate(self, array_metadata) ==
    IF array_metadata.dtype # "bool" THEN Raise("ValueError") ELSE Ok(PyNone)

\* self.validate(array_metadata); a class that defines none inherits zarr's
\* Codec.validate, which does nothing
validate(self, array_metadata) ==
    IF self.cls = PackbitsCodec
    THEN PackbitsCodec_validate(self, array_metadata)
    ELSE Ok(PyNone)

-----------------------------------------------------------------------------
(* The registry and the cached _codec property *)

\* the ids numcodecs registers codecs under
codec_registry ==
    { "blosc", "lz4", "zstd", "zlib", "gzip", "bz2", "lzma", "shuffle", "delta",
      "bitround", "fixedscaleoffset", "quantize", "astype", "packbits", "crc32",
      "adler32", "fletcher32", "jenkins_lookup3" }

\* numcodecs.get_codec(config): a codec of the class registered under
\* config["id"], or UnknownCodecError
get_codec(config) ==
    LET codec_id == DictGet(config, "id")
    IN  IF codec_id[1] = "str" /\ codec_id[2] \in codec_registry
        THEN Ok(codec_id[2])
        ELSE Raise("UnknownCodecError")

\* the getter of _codec handing out a stand-in when the lookup fails
NumcodecsCodec_codec_fallback(self) == Ok("fallback")

\* the getter of NumcodecsCodec._codec, which cached_property calls when the
\* instance has no "_codec" yet
NumcodecsCodec_codec(self) == get_codec(self.codec_config)

\* the classes with encode and decode, and the thread that evaluates
\* self._codec in each: to_thread(self._codec.decode, ...) evaluates it in the
\* caller's thread, to_thread(self._encode, ...) in the worker's
BytesBytes ==
    {NumcodecsBytesBytesCodec, ShuffleCodec}
        \cup DOMAIN make_bytes_bytes_codec \cup DOMAIN make_checksum_codec
ArrayArray == Classes \ (BytesBytes \cup {NumcodecsCodec})
ResolvedIn(cls, op) == IF cls \in BytesBytes /\ op = "encode" THEN "worker" ELSE "caller"

-----------------------------------------------------------------------------
(* Inputs *)

CodecIds == {PyNone, PyStr(""), PyStr("zlib"), PyStr("shuffle")}

Configs ==
    { EmptyDict,
      "level" :> PyInt(1),
      ("id" :> PyStr("zlib")) @@ ("level" :> PyInt(1)),
      ("id" :> PyStr("shuffle")) @@ ("elementsize" :> PyInt(4)),
      ("elementsize" :> PyInt(8)) @@ ("level" :> PyInt(1)),
      ("dtype" :> PyStr("int32")) @@ ("astype" :> PyStr("u1")),
      "dtype" :> PyStr("<i4"),
      ("encode_dtype" :> PyStr("uint8")) @@ ("decode_dtype" :> PyStr("int32")),
      "decode_dtype" :> PyStr("float64") }

\* codec_config alone, or nothing at all (the default {})
ConfigKwargs == {"codec_config" :> c : c \in Configs} \cup {EmptyDict}

\* codec_id and codec_config, or codec_config alone
IdKwargs ==
    {("codec_id" :> id) @@ ("codec_config" :> c) : id \in CodecIds, c \in Configs}
        \cup {"codec_config" :> c : c \in Configs}

Names ==
    { CODEC_PREFIX, CODEC_PREFIX \o "zlib", CODEC_PREFIX \o "shuffle",
      CODEC_PREFIX \o "astype", "https://zarr.dev/numcodecs", "zlib", "" }

DescriptorConfigs ==
    { EmptyDict,
      "level" :> PyInt(1),
      "id" :> PyStr("zlib"),
      ("encode_dtype" :> PyStr("u1")) @@ ("elementsize" :> PyInt(4)) }

Descriptors == [name : Names, configuration : DescriptorConfigs]

Prefixes == {CODEC_PREFIX, "https://zarr.dev/"}

DTypes == {"bool", "int32", "float64"}

Shapes == {<<>>} \cup {<<n>> : n \in 0..MaxDim} \cup {<<2, MaxDim \div 2>>}

FillValues == {0, 1}

ArraySpecs == {ArraySpec(sh, d, f) : sh \in Shapes, d \in DTypes, f \in FillValues}

\* evolve and compute_encoded_size read no shape and no fill value
FlatSpecs == {ArraySpec(<<MaxDim>>, d, 0) : d \in DTypes}

\* ArrayMetadata, of which validate reads dtype
ArrayMetadatas == [dtype : DTypes \cup {"uint8"}]

-----------------------------------------------------------------------------
(* The state machine: a host that constructs one codec, calls its methods   *)
(* one at a time and keeps the instances that evolve hands back.            *)

Call(op, self, arg, r) == [op |-> op, self |-> self, arg |-> arg, ret |-> r.val, err |-> r.err]

NoCall == Call("none", 0, PyNone, Ok(PyNone))

\* the host holds no result of a call
Idle == last = NoCall

\* no instance yet and no call in progress: the host may construct one
Fresh == Idle /\ Len(codecs) = 0

Init ==
    /\ codecs = <<>>
    /\ origin = <<>>
    /\ last = NoCall
    /\ cache = [i \in 1..MaxCodecs |-> 0]
    /\ lookups = [i \in 1..MaxCodecs |-> 0]
    /\ calls = [c \in {} |-> 0]
    /\ started = 0
    /\ finished = {}

\* a constructor call that returned codec_config r.val, or raised r.err
Created(op, cls, arg, r) ==
    IF r.err = ""
    THEN /\ codecs' = Append(codecs, [cls |-> cls, codec_config |-> r.val])
         /\ origin' = Append(origin, [via |-> op, self |-> 0, arg |-> arg])
         /\ last' = Call(op, 0, arg, Ok(Len(codecs) + 1))
         /\ UNCHANGED threads
    ELSE /\ UNCHANGED <<codecs, origin, threads>>
         /\ last' = Call(op, 0, arg, r)

\* cls(**kwargs)
Construct(cls, kwargs) ==
    /\ Fresh
    /\ Created("init", cls, [cls |-> cls, kwargs |-> kwargs], New(cls, kwargs))

\* cls.from_dict(data)
FromDict(cls, data) ==
    /\ Fresh
    /\ Created("from_dict", cls, [cls |-> cls, data |-> data], from_dict(cls, data))

\* parse_codec_configuration(data, prefix)
Parse(data, prefix) ==
    /\ Idle
    /\ last' = Call("parse", 0, [data |-> data, prefix |-> prefix],
                    parse_codec_configuration(data, prefix))
    /\ UNCHANGED <<codecs, origin, threads>>

\* codecs[i].to_dict()
ToDict(i) ==
    /\ Idle
    /\ last' = Call("to_dict", i, PyNone, Ok(to_dict(codecs[i])))
    /\ UNCHANGED <<codecs, origin, threads>>

\* codecs[i].compute_encoded_size(n, chunk_spec)
ComputeEncodedSize(i, n, chunk_spec) ==
    /\ Idle
    /\ last' = Call("compute_encoded_size", i, [n |-> n, chunk_spec |-> chunk_spec],
                    Ok(compute_encoded_size(codecs[i], n, chunk_spec)))
    /\ UNCHANGED <<codecs, origin, threads>>

\* codecs[i].evolve(array_spec): self, or the instance the constructor made
Evolve(i, array_spec) ==
    LET r == evolve(codecs[i], array_spec)
    IN  /\ Idle
        /\ IF r.same
           THEN /\ last' = Call("evolve", i, array_spec, Ok(i))
                /\ UNCHANGED <<codecs, origin, threads>>
           ELSE IF r.made.err # ""
           THEN /\ last' = Call("evolve", i, array_spec, r.made)
                /\ UNCHANGED <<codecs, origin, threads>>
           ELSE /\ Len(codecs) < MaxCodecs
                /\ codecs' = Append(codecs, [cls |-> codecs[i].cls,
                                             codec_config |-> r.made.val])
                /\ origin' = Append(origin, [via |-> "evolve", self |-> i,
                                             arg |-> array_spec])
                /\ last' = Call("evolve", i, array_spec, Ok(Len(codecs) + 1))
                /\ UNCHANGED threads

\* codecs[i].resolve_metadata(chunk_spec)
ResolveMetadata(i, chunk_spec) ==
    /\ Idle
    /\ last' = Call("resolve_metadata", i, chunk_spec,
                    resolve_metadata(codecs[i], chunk_spec))
    /\ UNCHANGED <<codecs, origin, threads>>

\* codecs[i].validate(array_metadata)
Validate(i, array_metadata) ==
    /\ Idle
    /\ last' = Call("validate", i, array_metadata, validate(codecs[i], array_metadata))
    /\ UNCHANGED <<codecs, origin, threads>>

\* the host is done with the result of the last call
Discard ==
    /\ ~Idle
    /\ last' = NoCall
    /\ UNCHANGED <<codecs, origin, threads>>

Next ==
    \/ Fresh /\ \E cls \in {NumcodecsCodec} \cup KeywordId, kw \in IdKwargs :
                    Construct(cls, kw)
    \/ Fresh /\ \E cls \in DOMAIN FixedId, kw \in ConfigKwargs : Construct(cls, kw)
    \/ Fresh /\ \E cls \in Classes, d \in Descriptors : FromDict(cls, d)
    \/ Idle /\ \E d \in Descriptors, p \in Prefixes : Parse(d, p)
    \/ Idle /\ \E i \in DOMAIN codecs : ToDict(i)
    \/ Idle /\ \E i \in DOMAIN codecs, n \in 0..MaxLen, s \in FlatSpecs :
                   ComputeEncodedSize(i, n, s)
    \/ Idle /\ \E i \in DOMAIN codecs, s \in FlatSpecs : Evolve(i, s)
    \/ Idle /\ \E i \in DOMAIN codecs, s \in ArraySpecs : ResolveMetadata(i, s)
    \/ Idle /\ \E i \in DOMAIN codecs, m \in ArrayMetadatas : Validate(i, m)
    \/ Discard

Spec == Init /\ [][Next]_vars

-----------------------------------------------------------------------------
(* encode and decode: a call evaluates self._codec, which cached_property   *)
(* serves from the instance's __dict__ or computes and stores, and then     *)
(* runs the codec's method in a worker thread.                              *)

Resolving == {"get", "lookup", "store"}

\* the caller's thread is inside an evaluation of self._codec
CallerBusy == \E c \in DOMAIN calls : calls[c].thread = "caller" /\ calls[c].pc \in Resolving

At(c, pc) == c \in DOMAIN calls /\ calls[c].pc = pc

Update(c, rec) == calls' = [k \in DOMAIN calls |-> IF k = c THEN rec ELSE calls[k]]

\* call c returns, or raises err
End(c, err) ==
    /\ calls' = [k \in DOMAIN calls \ {c} |-> calls[k]]
    /\ finished' = finished \cup
           {[self |-> calls[c].self, handle |-> calls[c].handle, err |-> err]}

\* await codecs[i].encode(...) or codecs[i].decode(...) begins
Begin(i, op) ==
    /\ Idle
    /\ started < MaxCalls
    /\ codecs[i].cls \in BytesBytes \cup ArrayArray
    /\ ResolvedIn(codecs[i].cls, op) = "caller" => ~CallerBusy
    /\ started' = started + 1
    /\ calls' = [k \in DOMAIN calls \cup {started + 1} |->
                    IF k = started + 1
                    THEN [self |-> i, op |-> op, pc |-> "get", handle |-> 0,
                          thread |-> ResolvedIn(codecs[i].cls, op)]
                    ELSE calls[k]]
    /\ UNCHANGED <<codecs, origin, last, cache, lookups, finished>>

\* cached_property.__get__: the instance's __dict__ is read
Get(c) ==
    /\ At(c, "get")
    /\ IF cache[calls[c].self] # 0
       THEN Update(c, [calls[c] EXCEPT !.pc = "run", !.handle = cache[calls[c].self]])
       ELSE Update(c, [calls[c] EXCEPT !.pc = "lookup"])
    /\ UNCHANGED <<codecs, origin, last, cache, lookups, started, finished>>

\* cached_property.__get__: nothing was cached, the getter is called
Lookup(c) ==
    LET i == calls[c].self
        r == NumcodecsCodec_codec(codecs[i])
    IN  /\ At(c, "lookup")
        /\ lookups' = [lookups EXCEPT ![i] = @ + 1]
        /\ IF r.err # ""
           THEN End(c, r.err)
           ELSE /\ Update(c, [calls[c] EXCEPT !.pc = "store", !.handle = lookups[i] + 1])
                /\ UNCHANGED finished
        /\ UNCHANGED <<codecs, origin, last, cache, started>>

\* cached_property.__get__: the getter's value is stored in __dict__
Store(c) ==
    /\ At(c, "store")
    /\ cache' = [cache EXCEPT ![calls[c].self] = calls[c].handle]
    /\ Update(c, [calls[c] EXCEPT !.pc = "run"])
    /\ UNCHANGED <<codecs, origin, last, lookups, started, finished>>

\* the worker runs the codec's encode or decode and the call returns
Run(c) ==
    /\ At(c, "run")
    /\ End(c, "")
    /\ UNCHANGED <<codecs, origin, last, cache, lookups, started>>

\* codec ids and configurations for the instances encode and decode are
\* called on
CallIds == {PyStr("zlib"), PyStr("unregistered")}
CallConfigs ==
    { EmptyDict,
      ("id" :> PyStr("zlib")) @@ ("level" :> PyInt(1)),
      ("elementsize" :> PyInt(8)) @@ ("level" :> PyInt(1)) }
CallClasses == {ShuffleCodec, "DeltaCodec", "JenkinsLookup3"}

\* the host makes its other calls between the encode and decode calls
Quiet == Idle /\ DOMAIN calls = {}

NextCalls ==
    \/ Fresh /\ \E kw \in IdKwargs : Construct(NumcodecsCodec, kw)
    \/ Fresh /\ \E id \in CallIds, c \in CallConfigs :
                    Construct(NumcodecsBytesBytesCodec,
                              ("codec_id" :> id) @@ ("codec_config" :> c))
    \/ Fresh /\ \E cls \in CallClasses, c \in CallConfigs :
                    Construct(cls, "codec_config" :> c)
    \/ Quiet /\ \E i \in DOMAIN codecs : ToDict(i)
    \/ Quiet /\ \E i \in DOMAIN codecs, s \in FlatSpecs : ComputeEncodedSize(i, MaxLen, s)
    \/ Quiet /\ \E i \in DOMAIN codecs, s \in FlatSpecs : Evolve(i, s)
    \/ Quiet /\ \E i \in DOMAIN codecs, s \in FlatSpecs : ResolveMetadata(i, s)
    \/ Quiet /\ \E i \in DOMAIN codecs, m \in ArrayMetadatas : Validate(i, m)
    \/ Discard
    \/ \E i \in DOMAIN codecs, op \in {"encode", "decode"} : Begin(i, op)
    \/ \E c \in DOMAIN calls : Get(c)
    \/ \E c \in DOMAIN calls : Lookup(c)
    \/ \E c \in DOMAIN calls : Store(c)
    \/ \E c \in DOMAIN calls : Run(c)

\* the host with encode and decode calls in flight
SpecCalls == Init /\ [][NextCalls]_vars

-----------------------------------------------------------------------------
(* Properties *)

\* the instance the last call was made on, and its class
Self == codecs[last.self]
On(op, cls) == last.op = op /\ last.self \in DOMAIN codecs /\ Self.cls = cls

\* the descriptor's name carries the prefix and its configuration no id
PrefixedNoId(d) == StartsWith(d.name, CODEC_PREFIX) /\ "id" \notin DOMAIN d.configuration

\* C1: a descriptor whose name starts with CODEC_PREFIX and whose
\* configuration has no 'id' key is accepted by NumcodecsCodec.from_dict (and
\* by a class with a fixed id when the name is the prefix and that id), and
\* to_dict of the instance from_dict made of it is the descriptor again.
C1_DescriptorRoundTrip ==
    /\ (last.op = "from_dict" /\ PrefixedNoId(last.arg.data)
          /\ \/ last.arg.cls = NumcodecsCodec
             \/ /\ last.arg.cls \in DOMAIN FixedId
                /\ last.arg.data.name = CODEC_PREFIX \o FixedId[last.arg.cls])
       => last.err = ""
    /\ (last.op = "to_dict" /\ origin[last.self].via = "from_dict"
          /\ PrefixedNoId(origin[last.self].arg.data))
       => last.ret = origin[last.self].arg.data

C1_Witness ==
    /\ last.op = "to_dict"
    /\ origin[last.self].via = "from_dict"
    /\ origin[last.self].arg.cls = NumcodecsCodec
    /\ DOMAIN origin[last.self].arg.data.configuration = {"level"}
    /\ last.ret = origin[last.self].arg.data

\* what a constructor call passes down to NumcodecsCodec.__init__
ReachesInit(a) ==
    /\ a.cls \in KeywordId => "codec_id" \in DOMAIN a.kwargs
    /\ a.cls \notin DOMAIN FixedId => "codec_config" \in DOMAIN a.kwargs
ExplicitId(a) ==
    IF a.cls \in DOMAIN FixedId THEN PyStr(FixedId[a.cls]) ELSE DictGet(a.kwargs, "codec_id")
GivenConfig(a) ==
    IF "codec_config" \in DOMAIN a.kwargs THEN a.kwargs["codec_config"] ELSE EmptyDict
\* an explicit id is given: neither None nor the empty string
Given(id) == id # PyNone /\ id # PyStr("")

\* C2: a constructor call fails with ValueError, and makes no instance, when
\* the configuration has no 'id' and no explicit id is given (None or the
\* empty string), and when the configuration has an 'id', an explicit id is
\* given and the two differ.
C2_ConstructionFails ==
    (last.op = "init" /\ ReachesInit(last.arg)
       /\ LET id == ExplicitId(last.arg)
              config == GivenConfig(last.arg)
          IN  \/ "id" \notin DOMAIN config /\ ~Given(id)
              \/ "id" \in DOMAIN config /\ Given(id) /\ config["id"] # id)
    => last.err = "ValueError" /\ last.ret = PyNone /\ Len(codecs) = 0

C2_Witness ==
    /\ last.op = "init"
    /\ last.arg.cls = NumcodecsCodec
    /\ "id" \in DOMAIN GivenConfig(last.arg)
    /\ ExplicitId(last.arg) = PyStr("shuffle")
    /\ GivenConfig(last.arg)["id"] = PyStr("zlib")
    /\ last.err = "ValueError"
    /\ Len(codecs) = 0

\* the result of parse has the suffix for its id and the descriptor's entries
ParsedFrom(ret, data, prefix) ==
    /\ DOMAIN ret = {"id"} \cup DOMAIN data.configuration
    /\ ret["id"] = PyStr(StripPrefix(data.name, prefix))
    /\ \A k \in DOMAIN data.configuration \ {"id"} : ret[k] = data.configuration[k]

\* C3 as stated: parse fails when the name does not start with the prefix,
\* and otherwise returns the suffix as 'id' next to the configuration's
\* entries, whatever the configuration.
C3_AsStated ==
    last.op = "parse" =>
        IF ~StartsWith(last.arg.data.name, last.arg.prefix)
        THEN last.err = "ValueError"
        ELSE last.err = "" /\ ParsedFrom(last.ret, last.arg.data, last.arg.prefix)

\* C3: parse fails with ValueError when the name does not start with the
\* prefix; otherwise it returns the suffix as 'id' next to the
\* configuration's entries when the configuration has no 'id' key, and the
\* configuration itself, its own 'id' included, when it has one.
C3_Parse ==
    last.op = "parse" =>
        IF ~StartsWith(last.arg.data.name, last.arg.prefix)
        THEN last.err = "ValueError"
        ELSE /\ last.err = ""
             /\ IF "id" \in DOMAIN last.arg.data.configuration
                THEN last.ret = last.arg.data.configuration
                ELSE ParsedFrom(last.ret, last.arg.data, last.arg.prefix)

C3_Witness ==
    /\ last.op = "parse"
    /\ last.err = ""
    /\ last.arg.prefix = CODEC_PREFIX
    /\ "level" \in DOMAIN last.ret
    /\ last.ret["id"] = PyStr("shuffle")

\* the field of its configuration an evolving class adapts, and the value
\* array_spec gives it
EvolveField ==
    (ShuffleCodec :> "elementsize") @@ (FixedScaleOffsetCodec :> "dtype") @@
    (QuantizeCodec :> "dtype") @@ (AsTypeCodec :> "decode_dtype")
EvolveValue(cls, array_spec) ==
    IF cls = ShuffleCodec
    THEN PyInt(CASE array_spec.dtype = "bool" -> 1 [] array_spec.dtype = "uint8" -> 1
                 [] array_spec.dtype = "int32" -> 4 [] array_spec.dtype = "float64" -> 8)
    ELSE PyStr(array_spec.dtype)

\* C4: evolve is idempotent: an instance that evolve(s) returned as a new
\* instance returns itself from evolve(s), and so does every instance that
\* evolve(s) returned unchanged; the configuration after the second call is
\* the configuration after the first.
C4_EvolveIdempotent ==
    /\ \A i \in DOMAIN codecs :
           origin[i].via = "evolve" => evolve(codecs[i], origin[i].arg).same
    /\ (last.op = "evolve" /\ last.err = "")
       => /\ evolve(codecs[last.ret], last.arg).same
          /\ (origin[last.self].via = "evolve" /\ origin[last.self].arg = last.arg)
             => last.ret = last.self

C4_Witness ==
    /\ last.op = "evolve"
    /\ Self.cls \in DOMAIN EvolveField
    /\ origin[last.self].via = "evolve"
    /\ origin[last.self].arg = last.arg
    /\ last.ret = last.self
    /\ codecs[last.self].codec_config # codecs[origin[last.self].self].codec_config

\* what evolve returned for the instance and array spec of the last call
EvolvedAsSpecified ==
    LET cls == Self.cls
        config == Self.codec_config
    IN  IF cls \notin DOMAIN EvolveField
        THEN last.ret = last.self
        ELSE LET field == EvolveField[cls]
                 value == EvolveValue(cls, last.arg)
             IN  IF field \in DOMAIN config /\ config[field] = value
                 THEN last.ret = last.self
                 ELSE /\ last.ret \in DOMAIN codecs
                      /\ last.ret # last.self
                      /\ codecs[last.ret].cls = cls
                      /\ DOMAIN codecs[last.ret].codec_config = DOMAIN config \cup {field}
                      /\ codecs[last.ret].codec_config[field] = value
                      /\ \A k \in DOMAIN config \ {field} :
                             codecs[last.ret].codec_config[k] = config[k]

\* C5: no call changes an instance that exists, evolve included; evolve
\* returns the instance itself when the array-dependent field of its
\* configuration already has the value of the array spec, and otherwise a
\* new instance of the same class whose configuration is the original's but
\* for that field, which has the value of the array spec.
C5_EvolveFrame ==
    /\ [](last.op = "evolve" => last.err = "" /\ EvolvedAsSpecified)
    /\ [][\A i \in DOMAIN codecs : i \in DOMAIN codecs' /\ codecs'[i] = codecs[i]]_vars

C5_Witness ==
    /\ On("evolve", ShuffleCodec)
    /\ last.arg.dtype = "int32"
    /\ last.ret # last.self
    /\ DictGet(Self.codec_config, "elementsize") = PyInt(8)
    /\ codecs[last.ret].codec_config =
           ("id" :> PyStr("shuffle")) @@ ("elementsize" :> PyInt(4)) @@ ("level" :> PyInt(1))

ChecksumClasses == {"Crc32Codec", "Adler32Codec", "Fletcher32Codec", "JenkinsLookup3"}

\* C6: compute_encoded_size(n, chunk_spec) is n + 4 on an instance of a
\* checksum class and n on an instance of any other class, whatever the
\* chunk spec.
C6_SizeAccounting ==
    last.op = "compute_encoded_size" =>
        /\ last.err = ""
        /\ last.ret = IF Self.cls \in ChecksumClasses THEN last.arg.n + 4 ELSE last.arg.n

C6_Witness ==
    /\ On("compute_encoded_size", "JenkinsLookup3")
    /\ last.arg.n = MaxLen
    /\ last.ret = MaxLen + 4

\* C7: PackbitsCodec.validate raises ValueError exactly when the array's
\* dtype is not bool, returns None for bool, and changes no instance.
C7_PackbitsValidate ==
    /\ [](On("validate", PackbitsCodec) =>
            IF last.arg.dtype = "bool"
            THEN last.err = "" /\ last.ret = PyNone
            ELSE last.err = "ValueError")
    /\ [][last'.op = "validate" => codecs' = codecs]_vars

C7_Witness ==
    /\ On("validate", PackbitsCodec)
    /\ last.arg.dtype = "bool"
    /\ last.err = ""

\* the packed size of k bits: the header byte and the least number of bytes
\* that hold them
Packed(k, size) == \E m \in 0..k : 8 * m >= k /\ 8 * (m - 1) < k /\ size = 1 + m

\* C8: PackbitsCodec.resolve_metadata of a bool array spec with k elements
\* is a spec of shape (1 + ceil(k / 8),), dtype uint8 and the same fill
\* value.
C8_PackbitsResolve ==
    (On("resolve_metadata", PackbitsCodec) /\ last.arg.dtype = "bool") =>
        /\ last.err = ""
        /\ Len(last.ret.shape) = 1
        /\ Packed(product(last.arg.shape), last.ret.shape[1])
        /\ last.ret.dtype = "uint8"
        /\ last.ret.fill_value = last.arg.fill_value

C8_Witness ==
    /\ On("resolve_metadata", PackbitsCodec)
    /\ last.arg.dtype = "bool"
    /\ last.arg.shape = <<9>>
    /\ last.arg.fill_value = 1
    /\ last.ret = ArraySpec(<<3>>, "uint8", 1)

\* a bool array spec of ten elements was resolved by a PackbitsCodec
TenBits ==
    /\ On("resolve_metadata", PackbitsCodec)
    /\ last.arg.dtype = "bool"
    /\ product(last.arg.shape) = 10

\* C9 as stated: ten bool elements resolve to shape (2,).
C9_AsStated == TenBits => last.ret.shape = <<2>>

\* C9: ten bool elements resolve to shape (3,): the header byte and the two
\* bytes that hold ten bits.
C9_TenBits == TenBits => last.err = "" /\ last.ret.shape = <<3>>

C9_Witness == TenBits /\ last.arg.shape = <<2, 5>> /\ last.ret.shape = <<3>>

\* the call returned array spec `out` of dtype `dtype`, shape and fill value
\* being those of the argument
Retyped(dtype) ==
    /\ last.err = ""
    /\ last.ret = ArraySpec(last.arg.shape, dtype, last.arg.fill_value)

\* C10 as stated: AsTypeCodec.resolve_metadata returns the spec with the
\* configured encode dtype, and the input spec when none is configured.
C10_AsStated ==
    On("resolve_metadata", AsTypeCodec) =>
        IF "encode_dtype" \in DOMAIN Self.codec_config
        THEN Retyped(DTypeNames[Self.codec_config["encode_dtype"][2]])
        ELSE last.err = "" /\ last.ret = last.arg

\* C10: AsTypeCodec.resolve_metadata returns the spec with the configured
\* encode dtype, shape and fill value unchanged, and raises KeyError when no
\* encode dtype is configured; it is FixedScaleOffsetCodec.resolve_metadata
\* that returns the spec with its configured 'astype' and the input spec
\* unchanged when none is configured.
C10_ResolveDtype ==
    /\ On("resolve_metadata", AsTypeCodec) =>
           IF "encode_dtype" \in DOMAIN Self.codec_config
           THEN Retyped(DTypeNames[Self.codec_config["encode_dtype"][2]])
           ELSE last.err = "KeyError" /\ last.ret = PyNone
    /\ On("resolve_metadata", FixedScaleOffsetCodec) =>
           IF "astype" \in DOMAIN Self.codec_config
           THEN Retyped(DTypeNames[Self.codec_config["astype"][2]])
           ELSE last.err = "" /\ last.ret = last.arg

C10_Witness ==
    /\ On("resolve_metadata", AsTypeCodec)
    /\ DictGet(Self.codec_config, "encode_dtype") = PyStr("u1")
    /\ last.arg = ArraySpec(<<2, 5>>, "int32", 1)
    /\ last.ret = ArraySpec(<<2, 5>>, "uint8", 1)

\* the configuration a constructor call with arguments `a` leaves in the
\* instance: the mapping given, with the explicit id added when it has none
Resolved(a) ==
    IF "id" \in DOMAIN GivenConfig(a)
    THEN GivenConfig(a)
    ELSE [k \in DOMAIN GivenConfig(a) \cup {"id"} |->
             IF k = "id" THEN ExplicitId(a) ELSE GivenConfig(a)[k]]

\* C11: every instance holds a configuration with an 'id'; an instance a
\* constructor call made holds the mapping's own id, or the explicit id when
\* the mapping had none, next to the mapping's entries; no call of to_dict,
\* evolve, resolve_metadata, validate, compute_encoded_size, encode or decode
\* changes the configuration of an instance; to_dict returns a configuration
\* without 'id' and leaves the instance's in place.
C11_IdInvariant ==
    /\ [](\A i \in DOMAIN codecs :
            /\ "id" \in DOMAIN codecs[i].codec_config
            /\ origin[i].via = "init" => codecs[i].codec_config = Resolved(origin[i].arg))
    /\ [](last.op = "to_dict" =>
            /\ "id" \notin DOMAIN last.ret.configuration
            /\ "id" \in DOMAIN Self.codec_config)
    /\ [][\A i \in DOMAIN codecs : i \in DOMAIN codecs' /\ codecs'[i] = codecs[i]]_vars

C11_Witness ==
    /\ last.op = "to_dict"
    /\ origin[last.self].via = "init"
    /\ "id" \notin DOMAIN GivenConfig(origin[last.self].arg)
    /\ "level" \in DOMAIN GivenConfig(origin[last.self].arg)
    /\ Self.codec_config["id"] = PyStr("shuffle")
    /\ \E f \in finished : f.self = last.self /\ f.err = ""
    /\ cache[last.self] # 0

\* no implementation is registered for the id of instance i
Unregistered(i) ==
    LET id == codecs[i].codec_config["id"]
    IN  id[1] # "str" \/ id[2] \notin codec_registry

\* C12: an instance whose id is not registered exists without any lookup
\* having been made before its first encode or decode; every encode and
\* decode on it that ended raised UnknownCodecError, none ever holds a handle
\* or reaches the codec's method, and nothing is cached for the instance.
C12_UnknownCodec ==
    /\ started = 0 => \A i \in 1..MaxCodecs : lookups[i] = 0 /\ cache[i] = 0
    /\ \A f \in finished :
           Unregistered(f.self) => f.err = "UnknownCodecError" /\ f.handle = 0
    /\ \A c \in DOMAIN calls :
           Unregistered(calls[c].self) =>
               calls[c].pc \in {"get", "lookup"} /\ calls[c].handle = 0
    /\ \A i \in DOMAIN codecs : Unregistered(i) => cache[i] = 0

C12_Witness ==
    \E i \in DOMAIN codecs :
        /\ Unregistered(i)
        /\ codecs[i].cls = "JenkinsLookup3"
        /\ started = 2
        /\ calls = [c \in {} |-> 0]
        /\ finished = {[self |-> i, handle |-> 0, err |-> "UnknownCodecError"]}

\* the handles the encode and decode calls on instance i ran or run with
Handles(i) ==
    {f.handle : f \in {g \in finished : g.self = i /\ g.err = ""}}
        \cup {calls[c].handle : c \in {d \in DOMAIN calls :
                                          calls[d].self = i /\ calls[d].handle # 0}}

\* C13 as stated: an instance's implementation is looked up at most once,
\* and all encode and decode calls on it use one handle.
C13_AsStated ==
    \A i \in DOMAIN codecs : lookups[i] <= 1 /\ Cardinality(Handles(i)) <= 1

====
